---- MODULE Spec2Model ----
(***************************************************************************)
(* Minesweeper board engine of ajenkinski/minesweeper-react.               *)
(*                                                                         *)
(* Two engines live in the repository:                                     *)
(*   "flood": src/src/minesweeper-game.ts, whose clearCell flood-fills;    *)
(*   "game" : src/src/game/minesweeper-game.ts, whose clearCell exposes    *)
(*            one cell and whose clearNeighbors chord-clears and cascades. *)
(* A board is an immutable value; every operation yields a new board.      *)
(***************************************************************************)
EXTENDS Integers, Sequences, FiniteSets, TLC

\* ---------------------------------------------------------------- bounds
\* Boards of the general specification have at most MaxCells cells.
MaxCells == 4
\* Boards of the first-move specification have at most MaxFirstCells cells.
MaxFirstCells == 12
\* Mine counts handed to the constructors are at most MaxMines, one mine for
\* every four cells of MaxCells, and at most MaxFirstMines in the first-move
\* specification.
MaxMines == MaxCells \div 4
MaxFirstMines == 2
\* A game of the general specification is at most MaxOps operations long.
MaxOps == 3
\* The any-coordinate specification calls with coordinates at most MaxOutside
\* beyond each edge of the board, at most MaxCalls times.
MaxOutside == 1
MaxCalls == 2
\* The explicit-cells specification hands the constructor at most MaxSupplied cells.
MaxSupplied == 3

\* ---------------------------------------------------------------- cells
\* enum Marker { Mine, Maybe }
Marker == {"Mine", "Maybe"}

\* marker?: Marker -- an absent marker is undefined
Undefined == "undefined"

MarkerArgs == Marker \cup {Undefined}

CoveredCellState(marker) == [kind |-> "covered", marker |-> marker]

ExposedCellState(exploded, numMinesNearby) ==
    [kind |-> "exposed", exploded |-> exploded, numMinesNearby |-> numMinesNearby]

Cell(hasMine, state) == [hasMine |-> hasMine, state |-> state]

isExposed(state) == state.kind = "exposed"

\* ---------------------------------------------------------------- boards
Variants == {"flood", "game"}

neighborOffsets ==
    << <<-1, -1>>, <<-1, 0>>, <<-1, 1>>, <<0, -1>>,
       <<0, 1>>, <<1, -1>>, <<1, 0>>, <<1, 1>> >>

getIndex(g, row, column) == row * g.numColumns + column

InBounds(g, row, column) ==
    /\ row >= 0 /\ row < g.numRows
    /\ column >= 0 /\ column < g.numColumns

\* validateCoord + cells.get: the cell at an in-bounds coordinate
cell(g, row, column) == g.cells[getIndex(g, row, column)]

cellState(g, row, column) == cell(g, row, column).state

\* the in-bounds neighbours, in the order of neighborOffsets
neighborCoords(g, row, column) ==
    LET shifted == [i \in 1..Len(neighborOffsets) |->
                        <<neighborOffsets[i][1] + row, neighborOffsets[i][2] + column>>]
        keep(rc) == InBounds(g, rc[1], rc[2])
    IN  SelectSeq(shifted, keep)

SeqRange(s) == {s[i] : i \in 1..Len(s)}

\* the count is cut down to the number of cells before it is stored
NewGame_ClampsMines(numRows, numColumns, numMines) ==
    [cells |-> [i \in 0..(numRows * numColumns - 1) |->
                    Cell(FALSE, CoveredCellState(Undefined))],
     numRows |-> numRows,
     numColumns |-> numColumns,
     numMines |-> IF numMines < numRows * numColumns THEN numMines
                  ELSE numRows * numColumns,
     minesAllocated |-> FALSE]

\* the mines are placed when the board is built, on its first numMines cells
NewGame_MinesAtConstruction(numRows, numColumns, numMines) ==
    [cells |-> [i \in 0..(numRows * numColumns - 1) |->
                    Cell(i < numMines, CoveredCellState(Undefined))],
     numRows |-> numRows,
     numColumns |-> numColumns,
     numMines |-> numMines,
     minesAllocated |-> FALSE]

\* constructor(numRows, numColumns, numMines): all covered, no mine placed yet
NewGame(numRows, numColumns, numMines) ==
    [cells |-> [i \in 0..(numRows * numColumns - 1) |->
                    Cell(FALSE, CoveredCellState(Undefined))],
     numRows |-> numRows,
     numColumns |-> numColumns,
     numMines |-> numMines,
     minesAllocated |-> FALSE]

\* minesAllocated is left at the GameState default, false
NewGameFromCells_NotAllocated(numRows, numColumns, cells) ==
    [cells |-> cells,
     numRows |-> numRows,
     numColumns |-> numColumns,
     numMines |-> Cardinality({i \in DOMAIN cells : cells[i].hasMine}),
     minesAllocated |-> FALSE]

\* constructor(numRows, numColumns, cells): explicit cells, mines counted
NewGameFromCells(numRows, numColumns, cells) ==
    [cells |-> cells,
     numRows |-> numRows,
     numColumns |-> numColumns,
     numMines |-> Cardinality({i \in DOMAIN cells : cells[i].hasMine}),
     minesAllocated |-> TRUE]

\* the GameState defaults: what there is before any board is built
NoGame ==
    [cells |-> << >>, numRows |-> 0, numColumns |-> 0, numMines |-> 0,
     minesAllocated |-> FALSE]

\* makeCellRecord(cell): the state is rebuilt as a Record of its kind, so a
\* covered state supplied without marker gets the default, undefined
makeCellRecord(c) ==
    Cell(c.hasMine,
         IF isExposed(c.state)
         THEN ExposedCellState(c.state.exploded, c.state.numMinesNearby)
         ELSE CoveredCellState(IF "marker" \in DOMAIN c.state THEN c.state.marker
                               ELSE Undefined))

\* ---------------------------------------------------------------- results
\* What a call hands back: a new board, or an Error thrown (no new board, so
\* the caller is left with the board it had).
Returned(g) == [threw |-> FALSE, game |-> g]
Thrown(g) == [threw |-> TRUE, game |-> g]
\* What a query hands back: a value, or an Error thrown (no value).
Answered(value) == [threw |-> FALSE, value |-> value]
Failed == [threw |-> TRUE, value |-> Undefined]

\* new MinesweeperGame(numRows, numColumns, cells) with cells an iterable of
\* any length: throws unless cells.size = numRows * numColumns
constructFromCells(numRows, numColumns, supplied) ==
    IF Len(supplied) # numRows * numColumns THEN Thrown(NoGame)
    ELSE Returned(NewGameFromCells(numRows, numColumns,
                    [i \in 0..(Len(supplied) - 1) |-> makeCellRecord(supplied[i + 1])]))

\* new MinesweeperGame(numRows, numColumns) and new MinesweeperGame(numRows,
\* numColumns, numMines): rest holds the third argument if there is one
\* (numMines = args[2] ?? 0); nothing is checked
constructFromCount(numRows, numColumns, rest) ==
    Returned(NewGame(numRows, numColumns, IF Len(rest) = 0 THEN 0 ELSE rest[1]))

\* ---------------------------------------------------------------- gameInfo
\* the marker is tested for truthiness: Marker.Mine is 0, so only Maybe counts
gameInfo_TruthyMarker(g) ==
    LET hasMarkedMine(c) == IF isExposed(c.state) THEN c.state.exploded
                            ELSE c.state.marker = "Maybe"
        isExploded(c) == isExposed(c.state) /\ c.state.exploded
    IN  [numMarkedMines |-> Cardinality({i \in DOMAIN g.cells : hasMarkedMine(g.cells[i])}),
         numExploded |-> Cardinality({i \in DOMAIN g.cells : isExploded(g.cells[i])}),
         numMines |-> g.numMines]

\* get gameInfo(): one pass over the cells, numMines taken from the state
gameInfo(g) ==
    LET hasMarkedMine(c) == IF isExposed(c.state) THEN c.state.exploded
                            ELSE c.state.marker = "Mine"
        isExploded(c) == isExposed(c.state) /\ c.state.exploded
    IN  [numMarkedMines |-> Cardinality({i \in DOMAIN g.cells : hasMarkedMine(g.cells[i])}),
         numExploded |-> Cardinality({i \in DOMAIN g.cells : isExploded(g.cells[i])}),
         numMines |-> g.numMines]

\* ---------------------------------------------------------------- clearCell
Min(a, b) == IF a < b THEN a ELSE b

\* a draw with replacement: duplicates collapse, so fewer elements may come back
sampleSize_WithReplacement(collection, n) ==
    {picked \in SUBSET collection :
        /\ Cardinality(picked) <= Min(n, Cardinality(collection))
        /\ (Min(n, Cardinality(collection)) > 0 => picked # {})}

\* _.sampleSize(collection, n): every way to draw min(n, size) distinct elements
sampleSize(collection, n) ==
    {picked \in SUBSET collection :
        Cardinality(picked) = Min(n, Cardinality(collection))}

\* the target itself is left among the candidates
potentialMineLocations_TargetNotExcluded(g, row, column) ==
    LET noMineCoords == neighborCoords(g, row, column)
        noMineIndexes == {getIndex(g, rc[1], rc[2]) : rc \in SeqRange(noMineCoords)}
    IN  (0..(g.numRows * g.numColumns - 1)) \ noMineIndexes

\* only the target is excluded, its neighbours stay candidates
potentialMineLocations_NeighborsNotExcluded(g, row, column) ==
    (0..(g.numRows * g.numColumns - 1)) \ {getIndex(g, row, column)}

\* _.difference(_.range(numRows * numColumns), noMineIndexes)
potentialMineLocations(g, row, column) ==
    LET noMineCoords == Append(neighborCoords(g, row, column), <<row, column>>)
        noMineIndexes == {getIndex(g, rc[1], rc[2]) : rc \in SeqRange(noMineCoords)}
    IN  (0..(g.numRows * g.numColumns - 1)) \ noMineIndexes

\* the mines are placed but the board is not marked as allocated
allocateMines_FlagNotSet(g, mineLocations) ==
    [g EXCEPT !.cells = [i \in DOMAIN g.cells |->
                            [g.cells[i] EXCEPT !.hasMine = (i \in mineLocations)]]]

\* the cells are built anew when the mines are placed: their markers are lost
allocateMines_DropsMarkers(g, mineLocations) ==
    [g EXCEPT !.cells = [i \in DOMAIN g.cells |->
                            Cell(i \in mineLocations, CoveredCellState(Undefined))],
              !.minesAllocated = TRUE]

\* cells.map((cell, i) => cell.set('hasMine', mineLocations.has(i))), minesAllocated: true
allocateMines(g, mineLocations) ==
    [g EXCEPT !.cells = [i \in DOMAIN g.cells |->
                            [g.cells[i] EXCEPT !.hasMine = (i \in mineLocations)]],
              !.minesAllocated = TRUE]

\* the cell itself is counted with its neighbours
countMinesNearby_IncludesSelf(g, row, column) ==
    LET nc == Append(neighborCoords(g, row, column), <<row, column>>)
    IN  Cardinality({i \in 1..Len(nc) : cell(g, nc[i][1], nc[i][2]).hasMine})

\* the number of in-bounds neighbours that hold a mine
countMinesNearby(g, row, column) ==
    LET nc == neighborCoords(g, row, column)
    IN  Cardinality({i \in 1..Len(nc) : cell(g, nc[i][1], nc[i][2]).hasMine})

\* the exploded test is missing: an exploded cell with no mine nearby cascades
cascades_IgnoreExploded(state) ==
    state.kind = "exposed" /\ state.numMinesNearby = 0

\* the test both engines make before cascading from a cell just exposed
cascades(state) ==
    state.kind = "exposed" /\ ~state.exploded /\ state.numMinesNearby = 0

\* "game" engine: expose the target cell alone
exposeCell(g, row, column) ==
    LET oldCell == cell(g, row, column)
    IN  [g EXCEPT !.cells[getIndex(g, row, column)].state =
            ExposedCellState(oldCell.hasMine, countMinesNearby(g, row, column))]

\* the fill spreads to cells with no mine nearby only, and leaves the numbered ring covered
floodPush_ZeroOnly(g, cells, row, column) ==
    LET keep(rc) == /\ ~isExposed(cells[getIndex(g, rc[1], rc[2])].state)
                    /\ countMinesNearby(g, rc[1], rc[2]) = 0
    IN  SelectSeq(neighborCoords(g, row, column), keep)

\* "flood" engine: the neighbours pushed after exposing a cell with no mine nearby
floodPush(g, cells, row, column) ==
    LET keep(rc) == ~isExposed(cells[getIndex(g, rc[1], rc[2])].state)
    IN  SelectSeq(neighborCoords(g, row, column), keep)

\* the entry is read but stays when it is the only one left
without_KeepsLastEntry(cellsToClear, i) ==
    IF Len(cellsToClear) = 1 THEN cellsToClear
    ELSE SubSeq(cellsToClear, 1, i - 1) \o SubSeq(cellsToClear, i + 1, Len(cellsToClear))

\* a work list with its entry i taken out
without(cellsToClear, i) ==
    SubSeq(cellsToClear, 1, i - 1) \o SubSeq(cellsToClear, i + 1, Len(cellsToClear))

\* "flood" engine: one pass of the while loop, taking entry i of cellsToClear
\* (the code pops, so i is the last entry)
floodTake(g, cells, cellsToClear, i) ==
    LET row == cellsToClear[i][1]
        column == cellsToClear[i][2]
        oldCell == cell(g, row, column)
        numMines == countMinesNearby(g, row, column)
        newCell == [oldCell EXCEPT !.state = ExposedCellState(oldCell.hasMine, numMines)]
        newCells == [cells EXCEPT ![getIndex(g, row, column)] = newCell]
        pushed == IF cascades(newCell.state)
                  THEN floodPush(g, newCells, row, column)
                  ELSE << >>
    IN  [cells |-> newCells, cellsToClear |-> without(cellsToClear, i) \o pushed]

\* "flood" engine: the while loop over cellsToClear, a stack popped at its end
RECURSIVE floodFill(_, _, _)
floodFill(g, cells, cellsToClear) ==
    IF Len(cellsToClear) = 0 THEN cells
    ELSE LET s == floodTake(g, cells, cellsToClear, Len(cellsToClear))
         IN  floodFill(g, s.cells, s.cellsToClear)

\* clearCell once mines are allocated and the target is covered
clearAllocated(v, g, row, column) ==
    IF v = "flood"
    THEN [g EXCEPT !.cells = floodFill(g, g.cells, << <<row, column>> >>)]
    ELSE exposeCell(g, row, column)

\* a marked target is left alone, as if the marker locked the cell
clearCell_SkipsMarked(v, g, row, column) ==
    IF ~InBounds(g, row, column) THEN {Thrown(g)}
    ELSE IF isExposed(cell(g, row, column).state) THEN {Returned(g)}
    ELSE IF cell(g, row, column).state.marker # Undefined THEN {Returned(g)}
    ELSE IF ~g.minesAllocated
    THEN {Returned(clearAllocated(v, allocateMines(g, mineLocations), row, column)) :
            mineLocations \in sampleSize(potentialMineLocations(g, row, column), g.numMines)}
    ELSE {Returned(clearAllocated(v, g, row, column))}

\* the mines are drawn again by every clearCell on a covered cell
clearCell_AllocatesEveryTime(v, g, row, column) ==
    IF ~InBounds(g, row, column) THEN {Thrown(g)}
    ELSE IF isExposed(cell(g, row, column).state) THEN {Returned(g)}
    ELSE {Returned(clearAllocated(v, allocateMines(g, mineLocations), row, column)) :
            mineLocations \in sampleSize(potentialMineLocations(g, row, column), g.numMines)}

\* an exposed target is treated as an error, as markCell treats it
clearCell_ThrowsOnExposed(v, g, row, column) ==
    IF ~InBounds(g, row, column) THEN {Thrown(g)}
    ELSE IF isExposed(cell(g, row, column).state) THEN {Thrown(g)}
    ELSE IF ~g.minesAllocated
    THEN {Returned(clearAllocated(v, allocateMines(g, mineLocations), row, column)) :
            mineLocations \in sampleSize(potentialMineLocations(g, row, column), g.numMines)}
    ELSE {Returned(clearAllocated(v, g, row, column))}

\* clearCell(row, column): the results it can have (one per random draw)
clearCell(v, g, row, column) ==
    IF ~InBounds(g, row, column) THEN {Thrown(g)}
    ELSE IF isExposed(cell(g, row, column).state) THEN {Returned(g)}
    ELSE IF ~g.minesAllocated
    THEN {Returned(clearAllocated(v, allocateMines(g, mineLocations), row, column)) :
            mineLocations \in sampleSize(potentialMineLocations(g, row, column), g.numMines)}
    ELSE {Returned(clearAllocated(v, g, row, column))}

\* ---------------------------------------------------------------- clearNeighbors
\* _.find(cellsToClear, coord): an array predicate is the matchesProperty
\* shorthand, so an entry e matches when e[coord[0]] === coord[1]
lodashFind(cellsToClear, coord) ==
    \E i \in 1..Len(cellsToClear) :
        /\ coord[1] \in {0, 1}
        /\ cellsToClear[i][coord[1] + 1] = coord[2]

\* for (let [coord, ncell] of game.neighbors(row, column)) { ... push(coord) }
RECURSIVE pushCovered(_, _, _, _)
pushCovered(g, cellsToClear, nc, i) ==
    IF i > Len(nc) THEN cellsToClear
    ELSE LET coord == nc[i]
             ncell == cellState(g, coord[1], coord[2])
         IN  pushCovered(g,
                         IF ncell.kind = "covered" /\ ~lodashFind(cellsToClear, coord)
                         THEN Append(cellsToClear, coord)
                         ELSE cellsToClear,
                         nc, i + 1)

\* one pass of the while loop of clearNeighbors, taking entry i of
\* cellsToClear (the code pops, so i is the last entry): the outcomes it can have
clearNeighborsTake(g, cellsToClear, i) ==
    LET row == cellsToClear[i][1]
        column == cellsToClear[i][2]
        rest == without(cellsToClear, i)
        next(g2) ==
            IF cascades(cellState(g2, row, column))
            THEN pushCovered(g2, rest, neighborCoords(g2, row, column), 1)
            ELSE rest
    IN  {[threw |-> r.threw, game |-> r.game,
          cellsToClear |-> IF r.threw THEN rest ELSE next(r.game)] :
            r \in clearCell("game", g, row, column)}

\* the while loop of clearNeighbors: the results it can end with
RECURSIVE clearNeighborsLoop(_, _)
clearNeighborsLoop(g, cellsToClear) ==
    IF Len(cellsToClear) = 0 THEN {Returned(g)}
    ELSE UNION {IF s.threw THEN {Thrown(s.game)}
                ELSE clearNeighborsLoop(s.game, s.cellsToClear) :
                    s \in clearNeighborsTake(g, cellsToClear, Len(cellsToClear))}

\* the covered neighbours carrying Marker.Mine
numMarkedNeighbors(g, row, column) ==
    LET nc == neighborCoords(g, row, column)
    IN  Cardinality({i \in 1..Len(nc) :
            LET c == cellState(g, nc[i][1], nc[i][2])
            IN  c.kind = "covered" /\ c.marker = "Mine"})

\* only unmarked neighbours are taken: a neighbour marked Maybe is left covered
neighborsToClear_UnmarkedOnly(g, row, column) ==
    LET keep(rc) == LET c == cellState(g, rc[1], rc[2])
                    IN  c.kind = "covered" /\ c.marker = Undefined
    IN  SelectSeq(neighborCoords(g, row, column), keep)

\* the initial cellsToClear: covered neighbours not marked Marker.Mine
neighborsToClear(g, row, column) ==
    LET keep(rc) == LET c == cellState(g, rc[1], rc[2])
                    IN  c.kind = "covered" /\ c.marker # "Mine"
    IN  SelectSeq(neighborCoords(g, row, column), keep)

\* the exploded test is missing: an exploded cell chord-clears like any other
clearNeighbors_NoExplodedCheck(g, row, column) ==
    IF ~InBounds(g, row, column) THEN {Thrown(g)}
    ELSE LET st == cellState(g, row, column)
         IN  IF ~isExposed(st) THEN {Returned(g)}
             ELSE IF numMarkedNeighbors(g, row, column) # st.numMinesNearby THEN {Returned(g)}
             ELSE clearNeighborsLoop(g, neighborsToClear(g, row, column))

\* clearNeighbors(row, column) of the "game" engine: the results it can have
clearNeighbors(g, row, column) ==
    IF ~InBounds(g, row, column) THEN {Thrown(g)}
    ELSE LET st == cellState(g, row, column)
         IN  IF ~isExposed(st) \/ st.exploded THEN {Returned(g)}
             ELSE IF numMarkedNeighbors(g, row, column) # st.numMinesNearby THEN {Returned(g)}
             ELSE clearNeighborsLoop(g, neighborsToClear(g, row, column))

\* ---------------------------------------------------------------- markCell
\* the exposed check is missing: the marker is written whatever the cell is
markCell_NoExposedCheck(g, row, column, marker) ==
    IF ~InBounds(g, row, column) THEN Thrown(g)
    ELSE Returned([g EXCEPT !.cells[getIndex(g, row, column)].state =
                        CoveredCellState(marker)])

\* an absent marker is taken as "nothing to set": the old marker stays
markCell_UnsetKeepsMarker(g, row, column, marker) ==
    IF ~InBounds(g, row, column) THEN Thrown(g)
    ELSE IF isExposed(cell(g, row, column).state) THEN Thrown(g)
    ELSE IF marker = Undefined THEN Returned(g)
    ELSE Returned([g EXCEPT !.cells[getIndex(g, row, column)].state =
                        CoveredCellState(marker)])

\* marking toggles: setting the marker a cell already carries removes it
markCell_Toggles(g, row, column, marker) ==
    IF ~InBounds(g, row, column) THEN Thrown(g)
    ELSE IF isExposed(cell(g, row, column).state) THEN Thrown(g)
    ELSE Returned([g EXCEPT !.cells[getIndex(g, row, column)].state =
                        IF @.marker = marker THEN CoveredCellState(Undefined)
                        ELSE CoveredCellState(marker)])

\* the cell is rebuilt from the Cell defaults, so its hasMine is lost
markCell_ResetsCell(g, row, column, marker) ==
    IF ~InBounds(g, row, column) THEN Thrown(g)
    ELSE IF isExposed(cell(g, row, column).state) THEN Thrown(g)
    ELSE Returned([g EXCEPT !.cells[getIndex(g, row, column)] =
                        Cell(FALSE, CoveredCellState(marker))])

\* markCell(row, column, marker): throws on an exposed cell
markCell(g, row, column, marker) ==
    IF ~InBounds(g, row, column) THEN Thrown(g)
    ELSE IF isExposed(cell(g, row, column).state) THEN Thrown(g)
    ELSE Returned([g EXCEPT !.cells[getIndex(g, row, column)].state =
                        CoveredCellState(marker)])

\* ---------------------------------------------------------------- queries
\* cellState(row, column) as a caller sees it: cell() validates the coordinate
cellStateQuery(g, row, column) ==
    IF ~InBounds(g, row, column) THEN Failed
    ELSE Answered(cellState(g, row, column))

\* neighborCoords(row, column) as a caller sees it: the offsets are added to
\* the coordinate and the sums filtered; the coordinate itself is not looked at
neighborCoordsQuery(g, row, column) == Answered(neighborCoords(g, row, column))

\* neighbors(row, column): each coordinate of neighborCoords with its cellState
neighborsQuery(g, row, column) ==
    LET nc == neighborCoords(g, row, column)
    IN  Answered([i \in 1..Len(nc) |-> <<nc[i], cellState(g, nc[i][1], nc[i][2])>>])

\* ---------------------------------------------------------------- state
VARIABLES
    variant,    \* which engine the board belongs to
    game,       \* the current board
    prev,       \* the board the last operation was applied to
    last,       \* the last operation, its arguments and whether it threw
    numOps,     \* the number of operations applied so far
    answer,     \* the value the last call handed back, if it was a query
    loop,       \* the work-list loop a call is in the middle of, if any
    history,    \* the App's history: the boards undo goes back to
    config,     \* the App's numRows, numColumns and numMines, for the next new game
    pending     \* the setState calls React has queued and not applied yet

vars == <<variant, game, prev, last, numOps, answer, loop, history, config, pending>>

\* the shape and mine count the App builds its next game with
Config(numRows, numColumns, numMines) ==
    [numRows |-> numRows, numColumns |-> numColumns, numMines |-> numMines]

\* no App around the board
NoConfig == Config(0, 0, 0)

\* no call is in the middle of a loop
NoLoop == [kind |-> "none"]

Op(name, row, column, marker, threw) ==
    [op |-> name, row |-> row, column |-> column, marker |-> marker, threw |-> threw]

\* the shapes numRows x numColumns with at most n cells
Shapes(n) == {rc \in (1..n) \X (1..n) : rc[1] * rc[2] <= n}

\* explicit cell sequences: all covered and unmarked, at most maxMines mines
ExplicitCells(numRows, numColumns, maxMines) ==
    {[i \in 0..(numRows * numColumns - 1) |->
            Cell(i \in mines, CoveredCellState(Undefined))] :
        mines \in {m \in SUBSET (0..(numRows * numColumns - 1)) : Cardinality(m) <= maxMines}}

\* the boards the public constructors build on a shape
Constructed(numRows, numColumns, maxMines) ==
    {NewGame(numRows, numColumns, numMines) : numMines \in 0..maxMines}
    \cup {NewGameFromCells(numRows, numColumns, cells) :
            cells \in ExplicitCells(numRows, numColumns, maxMines)}

InitOn(maxCells, maxMines) ==
    /\ variant \in Variants
    /\ \E rc \in Shapes(maxCells) : game \in Constructed(rc[1], rc[2], maxMines)
    /\ prev = game
    /\ last = Op("new", 0, 0, Undefined, FALSE)
    /\ numOps = 0
    /\ answer = Undefined
    /\ loop = NoLoop
    /\ history = << >>
    /\ config = NoConfig
    /\ pending = << >>

Init == InitOn(MaxCells, MaxMines)

Rows == 0..(game.numRows - 1)
Columns == 0..(game.numColumns - 1)

\* the caller keeps the board a call returned, or its old board when it threw
Applied(name, row, column, marker, r) ==
    /\ game' = r.game
    /\ prev' = game
    /\ last' = Op(name, row, column, marker, r.threw)
    /\ numOps' = numOps + 1
    /\ answer' = Undefined
    /\ UNCHANGED <<variant, loop, history, config, pending>>

ClearCell(row, column) ==
    /\ numOps < MaxOps
    /\ \E r \in clearCell(variant, game, row, column) :
            Applied("clearCell", row, column, Undefined, r)

ClearNeighbors(row, column) ==
    /\ numOps < MaxOps
    /\ variant = "game"
    /\ \E r \in clearNeighbors(game, row, column) :
            Applied("clearNeighbors", row, column, Undefined, r)

MarkCell(row, column, marker) ==
    /\ numOps < MaxOps
    /\ Applied("markCell", row, column, marker, markCell(game, row, column, marker))

Next ==
    \/ \E row \in Rows, column \in Columns : ClearCell(row, column)
    \/ \E row \in Rows, column \in Columns : ClearNeighbors(row, column)
    \/ \E row \in Rows, column \in Columns, marker \in MarkerArgs :
            MarkCell(row, column, marker)

Spec == Init /\ [][Next]_vars

\* ---------------------------------------------------------------- first move
\* Larger boards, and the first operation on them: one clearCell.
InitFirstMove == InitOn(MaxFirstCells, MaxFirstMines)

FirstClearCell(row, column) ==
    /\ numOps = 0
    /\ ClearCell(row, column)

NextFirstMove == \E row \in Rows, column \in Columns : FirstClearCell(row, column)

SpecFirstMove == InitFirstMove /\ [][NextFirstMove]_vars

\* ---------------------------------------------------------------- any coordinate
\* Calls with coordinates up to MaxOutside beyond each edge of the board,
\* the queries included; at most MaxCalls calls.
AnyRows == (0 - MaxOutside)..(game.numRows - 1 + MaxOutside)
AnyColumns == (0 - MaxOutside)..(game.numColumns - 1 + MaxOutside)

\* a query leaves the caller's board alone and hands back a value or throws
Queried(name, row, column, r) ==
    /\ numOps < MaxCalls
    /\ prev' = game
    /\ last' = Op(name, row, column, Undefined, r.threw)
    /\ numOps' = numOps + 1
    /\ answer' = r.value
    /\ UNCHANGED <<variant, game, loop, history, config, pending>>

CellState(row, column) ==
    Queried("cellState", row, column, cellStateQuery(game, row, column))

NeighborCoords(row, column) ==
    /\ variant = "game"
    /\ Queried("neighborCoords", row, column, neighborCoordsQuery(game, row, column))

Neighbors(row, column) ==
    Queried("neighbors", row, column, neighborsQuery(game, row, column))

NextAnywhere ==
    \/ \E row \in AnyRows, column \in AnyColumns : CellState(row, column)
    \/ \E row \in AnyRows, column \in AnyColumns : NeighborCoords(row, column)
    \/ \E row \in AnyRows, column \in AnyColumns : Neighbors(row, column)
    \/ \E row \in AnyRows, column \in AnyColumns :
            numOps < MaxCalls /\ ClearCell(row, column)
    \/ \E row \in AnyRows, column \in AnyColumns :
            numOps < MaxCalls /\ ClearNeighbors(row, column)
    \/ \E row \in AnyRows, column \in AnyColumns, marker \in MarkerArgs :
            numOps < MaxCalls /\ MarkCell(row, column, marker)

SpecAnywhere == Init /\ [][NextAnywhere]_vars

\* ---------------------------------------------------------------- explicit cells
\* The constructor called with a cell sequence of any length up to
\* MaxSupplied, then the first clearCell on the board it built.
SuppliedStates ==
    {[kind |-> "covered"]}
    \cup {CoveredCellState(marker) : marker \in Marker}
    \cup {ExposedCellState(exploded, 0) : exploded \in BOOLEAN}

SuppliedCells == {Cell(hasMine, state) : hasMine \in BOOLEAN, state \in SuppliedStates}

SuppliedSequences == UNION {[1..n -> SuppliedCells] : n \in 0..MaxSupplied}

InitConstruct ==
    /\ variant \in Variants
    /\ game = NoGame
    /\ prev = NoGame
    /\ last = Op("none", 0, 0, Undefined, FALSE)
    /\ numOps = 0
    /\ answer = Undefined
    /\ loop = NoLoop
    /\ history = << >>
    /\ config = NoConfig
    /\ pending = << >>

Construct(numRows, numColumns, supplied) ==
    /\ last.op = "none"
    /\ LET r == constructFromCells(numRows, numColumns, supplied)
       IN  /\ game' = r.game
           /\ last' = [op |-> "constructor", numRows |-> numRows,
                       numColumns |-> numColumns, cells |-> supplied,
                       threw |-> r.threw]
    /\ prev' = game
    /\ numOps' = numOps + 1
    /\ UNCHANGED <<variant, answer, loop, history, config, pending>>

\* the mine counts handed in: none at all, or a number from below zero to
\* above the number of cells
SuppliedCounts == {<< >>} \cup {<<n>> : n \in (0 - 1)..(MaxSupplied + 1)}

ConstructWithCount(numRows, numColumns, rest) ==
    /\ LET r == constructFromCount(numRows, numColumns, rest)
       IN  /\ game' = r.game
           /\ last' = [op |-> "constructorCount", numRows |-> numRows,
                       numColumns |-> numColumns, rest |-> rest,
                       threw |-> r.threw]
    /\ prev' = game
    /\ numOps' = numOps + 1
    /\ UNCHANGED <<variant, answer, loop, history, config, pending>>

FirstClearOfBuilt(row, column) ==
    /\ last.op = "constructor"
    /\ ~last.threw
    /\ ClearCell(row, column)

NextConstruct ==
    \/ /\ last.op = "none"
       /\ \E rc \in Shapes(MaxSupplied), supplied \in SuppliedSequences :
                Construct(rc[1], rc[2], supplied)
    \/ /\ last.op = "none"
       /\ \E rc \in Shapes(MaxSupplied), rest \in SuppliedCounts :
                ConstructWithCount(rc[1], rc[2], rest)
    \/ \E row \in Rows, column \in Columns : FirstClearOfBuilt(row, column)

SpecConstruct == InitConstruct /\ [][NextConstruct]_vars

\* ---------------------------------------------------------------- the loops
\* The two work-list loops taken one pass at a time: the while loop of the
\* "flood" engine's clearCell and the while loop of the "game" engine's
\* clearNeighbors.  Boards of at most MaxLoopCells cells, at most MaxLoopOps
\* calls.
MaxLoopCells == 6
MaxLoopMines == MaxLoopCells \div 4
MaxLoopOps == 2

\* a call in the middle of its loop: the call and its target, the board the
\* call was made on (this), the board as the loop has it so far (game), the
\* work list, the coordinates taken from it so far (taken) and those taken
\* more than once (again), and the coordinate of the last pass (at) with the
\* work list as that pass left it before pushing (rest)
Running(kind, row, column, this, g, cellsToClear, taken, again, at, rest) ==
    [kind |-> kind, row |-> row, column |-> column, this |-> this, game |-> g,
     cellsToClear |-> cellsToClear, taken |-> taken, again |-> again,
     at |-> at, rest |-> rest]

InitLoop == InitOn(MaxLoopCells, MaxLoopMines)

\* the boards the first clearCell goes on with: the board itself, or one per
\* random draw of the mines
allocated(g, row, column) ==
    IF g.minesAllocated THEN {g}
    ELSE {allocateMines(g, mineLocations) :
            mineLocations \in sampleSize(potentialMineLocations(g, row, column), g.numMines)}

\* "flood" engine clearCell up to its loop: an exposed target returns at
\* once, a covered one starts the loop with the target as the only entry
BeginClearCell(row, column) ==
    /\ variant = "flood"
    /\ loop = NoLoop
    /\ numOps < MaxLoopOps
    /\ IF isExposed(cellState(game, row, column))
       THEN Applied("clearCell", row, column, Undefined, Returned(game))
       ELSE /\ \E this \in allocated(game, row, column) :
                    loop' = Running("clearCell", row, column, this, this,
                                    << <<row, column>> >>, {}, {}, << >>, << >>)
            /\ UNCHANGED <<variant, game, prev, last, numOps, answer, history, config, pending>>

\* one pass of the flood loop, taking entry i of the work list
TakeFlood(i) ==
    /\ loop.kind = "clearCell"
    /\ i \in 1..Len(loop.cellsToClear)
    /\ LET coord == loop.cellsToClear[i]
           s == floodTake(loop.this, loop.game.cells, loop.cellsToClear, i)
       IN  loop' = [loop EXCEPT !.game.cells = s.cells,
                                !.cellsToClear = s.cellsToClear,
                                !.taken = @ \cup {coord},
                                !.again = IF coord \in loop.taken THEN @ \cup {coord} ELSE @,
                                !.at = coord,
                                !.rest = without(loop.cellsToClear, i)]
    /\ UNCHANGED <<variant, game, prev, last, numOps, answer, history, config, pending>>

\* "game" engine clearNeighbors up to its loop: the early returns, or the
\* loop started on the covered neighbours not marked Marker.Mine
BeginClearNeighbors(row, column) ==
    /\ variant = "game"
    /\ loop = NoLoop
    /\ numOps < MaxLoopOps
    /\ LET st == cellState(game, row, column)
       IN  IF \/ ~isExposed(st)
              \/ st.exploded
              \/ numMarkedNeighbors(game, row, column) # st.numMinesNearby
           THEN Applied("clearNeighbors", row, column, Undefined, Returned(game))
           ELSE /\ loop' = Running("clearNeighbors", row, column, game, game,
                                   neighborsToClear(game, row, column),
                                   {}, {}, << >>, << >>)
                /\ UNCHANGED <<variant, game, prev, last, numOps, answer, history, config, pending>>

\* one pass of the clearNeighbors loop, taking entry i of the work list
TakeNeighbor(i) ==
    /\ loop.kind = "clearNeighbors"
    /\ i \in 1..Len(loop.cellsToClear)
    /\ LET coord == loop.cellsToClear[i]
       IN  \E s \in clearNeighborsTake(loop.game, loop.cellsToClear, i) :
                /\ ~s.threw
                /\ loop' = [loop EXCEPT !.game = s.game,
                                        !.cellsToClear = s.cellsToClear,
                                        !.taken = @ \cup {coord},
                                        !.again = IF coord \in loop.taken THEN @ \cup {coord} ELSE @,
                                        !.at = coord,
                                        !.rest = without(loop.cellsToClear, i)]
    /\ UNCHANGED <<variant, game, prev, last, numOps, answer, history, config, pending>>

\* the work list is empty: the call returns the board the loop built
ReturnFromLoop ==
    /\ loop.kind \in {"clearCell", "clearNeighbors"}
    /\ Len(loop.cellsToClear) = 0
    /\ game' = loop.game
    /\ prev' = game
    /\ last' = Op(loop.kind, loop.row, loop.column, Undefined, FALSE)
    /\ numOps' = numOps + 1
    /\ answer' = Undefined
    /\ loop' = NoLoop
    /\ UNCHANGED <<variant, history, config, pending>>

\* clearCell of the "game" engine, which has no loop
PlainClearCell ==
    /\ loop = NoLoop
    /\ numOps < MaxLoopOps
    /\ variant = "game"
    /\ \E row \in Rows, column \in Columns : ClearCell(row, column)

\* the calls that have no loop of their own
Plain ==
    /\ loop = NoLoop
    /\ numOps < MaxLoopOps
    /\ \E row \in Rows, column \in Columns :
            \/ variant = "game" /\ ClearCell(row, column)
            \/ \E marker \in MarkerArgs : MarkCell(row, column, marker)

\* the pass the code makes: it pops, so it takes the last entry
Pass ==
    \/ TakeFlood(Len(loop.cellsToClear))
    \/ TakeNeighbor(Len(loop.cellsToClear))

NextLoop ==
    \/ Plain
    \/ \E row \in Rows, column \in Columns : BeginClearCell(row, column)
    \/ \E row \in Rows, column \in Columns : BeginClearNeighbors(row, column)
    \/ Pass
    \/ ReturnFromLoop

SpecLoop == InitLoop /\ [][NextLoop]_vars

\* The same loops with the pending cells taken in any order: a pass may take
\* any entry of the work list.  Boards of at most MaxOrderCells cells.
PassAny ==
    /\ loop # NoLoop
    /\ \/ \E i \in 1..Len(loop.cellsToClear) : TakeFlood(i)
       \/ \E i \in 1..Len(loop.cellsToClear) : TakeNeighbor(i)

NextAnyOrder ==
    \/ PlainClearCell
    \/ \E row \in Rows, column \in Columns : BeginClearCell(row, column)
    \/ \E row \in Rows, column \in Columns : BeginClearNeighbors(row, column)
    \/ PassAny
    \/ ReturnFromLoop

MaxOrderCells == 5
MaxOrderMines == MaxOrderCells \div 4

InitAnyOrder == InitOn(MaxOrderCells, MaxOrderMines)

SpecAnyOrder == InitAnyOrder /\ [][NextAnyOrder]_vars

\* Boards of at most MaxFairCells cells that start with markers on at most
\* MaxFairMarked of them: a board as built, after markCell on some of its cells.
MaxFairCells == 4
MaxFairMines == MaxFairCells \div 4
MaxFairMarked == MaxFairCells \div 4

\* the ways to mark at most n cells of a board
markings(g, n) ==
    {markers \in [DOMAIN g.cells -> MarkerArgs] :
        Cardinality({i \in DOMAIN g.cells : markers[i] # Undefined}) <= n}

marked(g, markers) ==
    [g EXCEPT !.cells = [i \in DOMAIN g.cells |->
                            [g.cells[i] EXCEPT !.state = CoveredCellState(markers[i])]]]

InitLoopFair ==
    /\ variant \in Variants
    /\ \E rc \in Shapes(MaxFairCells) :
        \E g \in Constructed(rc[1], rc[2], MaxFairMines) :
            game \in {marked(g, markers) : markers \in markings(g, MaxFairMarked)}
    /\ prev = game
    /\ last = Op("new", 0, 0, Undefined, FALSE)
    /\ numOps = 0
    /\ answer = Undefined
    /\ loop = NoLoop
    /\ history = << >>
    /\ config = NoConfig
    /\ pending = << >>

NextLoopFair ==
    \/ PlainClearCell
    \/ \E row \in Rows, column \in Columns : BeginClearCell(row, column)
    \/ \E row \in Rows, column \in Columns : BeginClearNeighbors(row, column)
    \/ Pass
    \/ ReturnFromLoop

\* a call that is running keeps running: its next pass, or its return, is
\* the only thing its thread can do
SpecLoopFair ==
    InitLoopFair /\ [][NextLoopFair]_vars /\ WF_vars(Pass) /\ WF_vars(ReturnFromLoop)

\* ---------------------------------------------------------------- the helper
\* clearNeighbors(game, row, column), the function the earlier App modules
\* define on top of the engine they import.

\* neighbors.reduce((game_, [[r, c], cell_]) => ..., game): clearCell on the
\* neighbours that were covered and not marked Marker.Mine when the helper
\* was called, one after the other
RECURSIVE helperReduce(_, _, _, _, _)
helperReduce(v, game_, g, nc, i) ==
    IF i > Len(nc) THEN {Returned(game_)}
    ELSE LET cell_ == cellState(g, nc[i][1], nc[i][2])
         IN  IF cell_.kind = "covered" /\ cell_.marker # "Mine"
             THEN UNION {IF r.threw THEN {Thrown(g)}
                         ELSE helperReduce(v, r.game, g, nc, i + 1) :
                            r \in clearCell(v, game_, nc[i][1], nc[i][2])}
             ELSE helperReduce(v, game_, g, nc, i + 1)

\* clearNeighbors(game, row, column) of the App module: the results it can have
helperClearNeighbors(v, g, row, column) ==
    IF ~InBounds(g, row, column) THEN {Thrown(g)}
    ELSE LET st == cellState(g, row, column)
         IN  IF st.kind # "exposed" THEN {Returned(g)}
             ELSE IF numMarkedNeighbors(g, row, column) # st.numMinesNearby THEN {Returned(g)}
             ELSE helperReduce(v, g, g, neighborCoords(g, row, column), 1)

HelperClearNeighbors(row, column) ==
    /\ numOps < MaxOps
    /\ \E r \in helperClearNeighbors(variant, game, row, column) :
            Applied("helperClearNeighbors", row, column, Undefined, r)

NextHelper ==
    \/ \E row \in Rows, column \in Columns : ClearCell(row, column)
    \/ \E row \in Rows, column \in Columns, marker \in MarkerArgs :
            MarkCell(row, column, marker)
    \/ \E row \in Rows, column \in Columns : HelperClearNeighbors(row, column)

SpecHelper == Init /\ [][NextHelper]_vars

\* ---------------------------------------------------------------- the App
\* App.handleCellClick.  The App over the "game" engine is
\* src/unnamed/part_003, the App over the "flood" engine is src/src/App.tsx.
Commands == {"Clear", "MarkMine", "MarkMaybe"}

\* Clear on a covered cell, "game" engine: clearCell, then clearNeighbors
\* when the cell came out exposed with no mine nearby
clearCommand(g, row, column) ==
    UNION {IF r.threw THEN {r}
           ELSE LET newCell == cellState(r.game, row, column)
                IN  IF newCell.kind = "exposed" /\ newCell.numMinesNearby = 0
                    THEN clearNeighbors(r.game, row, column)
                    ELSE {r} :
                r \in clearCell("game", g, row, column)}

\* the covered test is missing: markCell is called on an exposed cell too
markCommand_NoCoveredCheck(g, row, column, marker) ==
    LET st == cellState(g, row, column)
    IN  {markCell(g, row, column,
                  IF st.kind = "covered" /\ st.marker = marker THEN Undefined ELSE marker)}

\* the marker is always set, never taken off
markCommand_NeverUnsets(g, row, column, marker) ==
    LET st == cellState(g, row, column)
    IN  IF st.kind = "covered"
        THEN {markCell(g, row, column, marker)}
        ELSE {Returned(g)}

\* MarkMine and MarkMaybe: the marker is set, or taken off when the cell
\* carries it already; an exposed cell is left alone
markCommand(g, row, column, marker) ==
    LET st == cellState(g, row, column)
    IN  IF st.kind = "covered"
        THEN {markCell(g, row, column, IF st.marker = marker THEN Undefined ELSE marker)}
        ELSE {Returned(g)}

\* the body of the setState updater below its numExploded test: the boards
\* newGame can be
clicked(v, g, row, column, command) ==
    IF ~InBounds(g, row, column) THEN {Thrown(g)}
    ELSE IF command = "MarkMine" THEN markCommand(g, row, column, "Mine")
    ELSE IF command = "MarkMaybe" THEN markCommand(g, row, column, "Maybe")
    ELSE IF v = "flood" THEN clearCell("flood", g, row, column)
    ELSE IF cellState(g, row, column).kind = "exposed" THEN clearNeighbors(g, row, column)
    ELSE clearCommand(g, row, column)

\* the test is missing: a click plays on after a mine has exploded
gameOver_Never(g) == FALSE

\* if (game.gameInfo.numExploded > 0) return
gameOver(g) == gameInfo(g).numExploded > 0

Click(row, column, command, threw) ==
    [op |-> "handleCellClick", row |-> row, column |-> column,
     command |-> command, threw |-> threw]

\* handleCellClick(row, column, event): the updater returns nothing when the
\* game is over, and else the new board with the old one added to the history
HandleCellClick(row, column, command) ==
    /\ IF gameOver(game)
       THEN /\ last' = Click(row, column, command, FALSE)
            /\ UNCHANGED <<game, history>>
       ELSE \E r \in clicked(variant, game, row, column, command) :
                /\ last' = Click(row, column, command, r.threw)
                /\ IF r.threw
                   THEN UNCHANGED <<game, history>>
                   ELSE game' = r.game /\ history' = Append(history, game)
    /\ prev' = game
    /\ numOps' = numOps + 1
    /\ UNCHANGED <<variant, answer, loop, config, pending>>

\* a click on one of the App's buttons
Button(name) ==
    [op |-> name, row |-> 0, column |-> 0, command |-> "none", threw |-> FALSE]

\* newGame(): a board of the configured shape and mine count, and an empty
\* history
NewGameClick ==
    /\ game' = NewGame(config.numRows, config.numColumns, config.numMines)
    /\ history' = << >>
    /\ last' = Button("newGame")
    /\ prev' = game
    /\ numOps' = numOps + 1
    /\ UNCHANGED <<variant, answer, loop, config, pending>>

\* the part of the App's state the handlers work on
AppState(g, h) == [game |-> g, history |-> h]

\* the oldest board of the history comes back, not the last
undoUpdater_RestoresOldest(st) ==
    IF Len(st.history) > 0
    THEN AppState(st.history[1], SubSeq(st.history, 1, Len(st.history) - 1))
    ELSE AppState(NoGame, << >>)

\* the updater of undoMove: state.history[state.history.length - 1] is
\* undefined on an empty history, and slice(0, -1) of it is empty
undoUpdater(st) ==
    IF Len(st.history) > 0
    THEN AppState(st.history[Len(st.history)], SubSeq(st.history, 1, Len(st.history) - 1))
    ELSE AppState(NoGame, << >>)

\* undoMove(): with a history, the last board of it comes back and leaves
\* the history; without one nothing happens
UndoMove ==
    /\ IF Len(history) > 0
       THEN /\ game' = undoUpdater(AppState(game, history)).game
            /\ history' = undoUpdater(AppState(game, history)).history
       ELSE UNCHANGED <<game, history>>
    /\ last' = Button("undoMove")
    /\ prev' = game
    /\ numOps' = numOps + 1
    /\ UNCHANGED <<variant, answer, loop, config, pending>>

\* The App on boards of at most MaxAppCells cells, at most MaxAppOps clicks
\* (on a cell, on Undo, on New Game).
MaxAppCells == 3
MaxAppMines == 1
MaxAppOps == 3

InitApp ==
    /\ variant \in Variants
    /\ \E rc \in Shapes(MaxAppCells), numMines \in 0..MaxAppMines :
            config = Config(rc[1], rc[2], numMines)
    /\ game = NewGame(config.numRows, config.numColumns, config.numMines)
    /\ prev = game
    /\ last = Button("constructor")
    /\ numOps = 0
    /\ answer = Undefined
    /\ loop = NoLoop
    /\ history = << >>
    /\ pending = << >>

NextApp ==
    \/ /\ numOps < MaxAppOps
       /\ \E row \in Rows, column \in Columns, command \in Commands :
                HandleCellClick(row, column, command)
    \/ numOps < MaxAppOps /\ UndoMove
    \/ numOps < MaxAppOps /\ NewGameClick

SpecApp == InitApp /\ [][NextApp]_vars

\* ---------------------------------------------------------------- queued updates
\* this.setState(...) does not change this.state: React queues the update
\* and applies the queued ones later, in order, each on the state the one
\* before it left.  The handlers below read this.state (game, history) as it
\* was last rendered.

\* boards of at most MaxQueueCells cells, at most MaxQueueOps handler calls
MaxQueueCells == 2
MaxQueueMines == MaxQueueCells \div 2
MaxQueueOps == 3

\* the updater of handleCellClick on a state: the states it can return
clickUpdater(v, st, u) ==
    IF st.game = NoGame \/ gameOver(st.game) THEN {st}
    ELSE {IF r.threw THEN st ELSE AppState(r.game, Append(st.history, st.game)) :
            r \in clicked(v, st.game, u.row, u.column, u.command)}

\* the updater a handler passed to setState, applied to a state
updated(v, cfg, st, u) ==
    IF u.op = "handleCellClick" THEN clickUpdater(v, st, u)
    ELSE IF u.op = "undoMove" THEN {undoUpdater(st)}
    ELSE {AppState(NewGame(cfg.numRows, cfg.numColumns, cfg.numMines), << >>)}

\* the handler works the new state out of this.state at once and passes
\* setState the object
setState_ObjectNow(v, cfg, st, u) ==
    [kind |-> "object", u |-> u, state |-> CHOOSE x \in updated(v, cfg, st, u) : TRUE]

\* this.setState(state => ...): what is put on the queue is the updater
setState(v, cfg, st, u) ==
    [kind |-> "updater", u |-> u, state |-> st]

\* React applying one queued update: an object replaces the fields it
\* names, an updater is called with the state the update before it left
processed(v, cfg, st, e) ==
    IF e.kind = "object" THEN {e.state} ELSE updated(v, cfg, st, e.u)

\* React applying the queue from entry i on: the states it can end in
RECURSIVE processQueue(_, _, _, _, _)
processQueue(v, cfg, st, queue, i) ==
    IF i > Len(queue) THEN {st}
    ELSE UNION {processQueue(v, cfg, st2, queue, i + 1) :
                    st2 \in processed(v, cfg, st, queue[i])}

\* a handler has queued its update
Queued(u) ==
    /\ game # NoGame
    /\ numOps < MaxQueueOps
    /\ pending' = Append(pending, setState(variant, config, AppState(game, history), u))
    /\ last' = u
    /\ numOps' = numOps + 1
    /\ UNCHANGED <<variant, game, prev, answer, loop, history, config>>

QueueClick(row, column, command) == Queued(Click(row, column, command, FALSE))

QueueNewGame == Queued(Button("newGame"))

\* undoMove() looks at the history of this.state, and queues its updater
\* when that history is not empty
QueueUndo ==
    IF Len(history) > 0 THEN Queued(Button("undoMove"))
    ELSE /\ game # NoGame
         /\ numOps < MaxQueueOps
         /\ last' = Button("undoMove")
         /\ numOps' = numOps + 1
         /\ UNCHANGED <<variant, game, prev, answer, loop, history, config, pending>>

\* React applies the queued updates and renders
Flush ==
    /\ pending # << >>
    /\ \E st \in processQueue(variant, config, AppState(game, history), pending, 1) :
            /\ game' = st.game
            /\ history' = st.history
    /\ pending' = << >>
    /\ prev' = game
    /\ last' = [op |-> "flush", updates |-> pending, history |-> history]
    /\ UNCHANGED <<variant, numOps, answer, loop, config>>

NextQueue ==
    \/ \E row \in Rows, column \in Columns, command \in Commands :
            QueueClick(row, column, command)
    \/ QueueUndo
    \/ QueueNewGame
    \/ Flush

\* the App as constructed, nothing queued
InitQueue ==
    /\ variant \in Variants
    /\ \E rc \in Shapes(MaxQueueCells), numMines \in 0..MaxQueueMines :
            config = Config(rc[1], rc[2], numMines)
    /\ game = NewGame(config.numRows, config.numColumns, config.numMines)
    /\ prev = game
    /\ last = Button("constructor")
    /\ numOps = 0
    /\ answer = Undefined
    /\ loop = NoLoop
    /\ history = << >>
    /\ pending = << >>

SpecQueue == InitQueue /\ [][NextQueue]_vars

\* ---------------------------------------------------------------- one reveal
\* Boards of at most MaxClearCells cells with no marker on them, and the
\* ways to reveal a cell of them: the App's Clear click, and the engine calls
\* the click is made of.
MaxClearCells == 8
MaxClearMines == MaxClearCells \div 8

InitClear == InitOn(MaxClearCells, MaxClearMines)

ClickClear(row, column) ==
    /\ numOps = 0
    /\ HandleCellClick(row, column, "Clear")

ClearThenNeighbors(row, column) ==
    /\ variant = "game"
    /\ \/ numOps = 0 /\ ClearCell(row, column)
       \/ numOps = 1 /\ last.op = "clearCell" /\ ClearNeighbors(row, column)

NextClear ==
    \/ \E row \in Rows, column \in Columns : ClickClear(row, column)
    \/ \E row \in Rows, column \in Columns : ClearThenNeighbors(row, column)

SpecClear == InitClear /\ [][NextClear]_vars

\* ---------------------------------------------------------------- properties
\* helpers of the properties: the last call's target and the boards around it
NumCells(g) == g.numRows * g.numColumns
TargetIndex == getIndex(prev, last.row, last.column)
MineCells(g) == {i \in DOMAIN g.cells : g.cells[i].hasMine}
FreshlyBuilt(g) == g = NewGame(g.numRows, g.numColumns, g.numMines)
NeighborIndexes(g, i) ==
    {getIndex(g, rc[1], rc[2]) :
        rc \in SeqRange(neighborCoords(g, i \div g.numColumns, i % g.numColumns))}

\* C1: the first clearCell on a board freshly built with a mine count, where
\* rows*cols - 9 >= numMines, exposes its target with exploded = false,
\* whatever the target and the random placement.
C1_FirstClearNeverExplodes ==
    (/\ last.op = "clearCell"
     /\ FreshlyBuilt(prev)
     /\ NumCells(prev) - 9 >= prev.numMines)
    => /\ ~last.threw
       /\ isExposed(cellState(game, last.row, last.column))
       /\ ~cellState(game, last.row, last.column).exploded

C1_Witness ==
    /\ last.op = "clearCell"
    /\ FreshlyBuilt(prev)
    /\ prev.numMines = MaxFirstMines
    /\ NumCells(prev) - 9 >= prev.numMines
    /\ Cardinality(MineCells(game)) = prev.numMines
    /\ isExposed(cellState(game, last.row, last.column))

\* C2: the lazy placement done by the first clearCell puts no mine on the
\* target or on any in-bounds neighbour of it, so the target is exposed with
\* exploded = false and numMinesNearby = 0.
C2_SafeZoneHasNoMine ==
    (last.op = "clearCell" /\ ~prev.minesAllocated)
    => /\ TargetIndex \notin MineCells(game)
       /\ NeighborIndexes(game, TargetIndex) \cap MineCells(game) = {}
       /\ cellState(game, last.row, last.column) = ExposedCellState(FALSE, 0)

C2_Witness ==
    /\ last.op = "clearCell"
    /\ ~prev.minesAllocated
    /\ game.minesAllocated
    /\ Cardinality(NeighborIndexes(game, TargetIndex)) >= 3
    /\ Cardinality(MineCells(game)) = MaxFirstMines
    /\ cellState(game, last.row, last.column) = ExposedCellState(FALSE, 0)

\* C3: for a mine count M with 0 <= M <= rows*cols - 9, after the first
\* clearCell has allocated the mines exactly M cells have hasMine = true and
\* gameInfo.numMines is still M.
C3_ExactlyNumMinesAllocated ==
    (/\ last.op = "clearCell"
     /\ ~prev.minesAllocated
     /\ prev.numMines <= NumCells(prev) - 9)
    => /\ game.minesAllocated
       /\ Cardinality(MineCells(game)) = prev.numMines
       /\ gameInfo(game).numMines = prev.numMines

C3_Witness ==
    /\ last.op = "clearCell"
    /\ ~prev.minesAllocated
    /\ prev.numMines = MaxFirstMines
    /\ prev.numMines <= NumCells(prev) - 9
    /\ game.minesAllocated
    /\ Cardinality(MineCells(game)) = MaxFirstMines

\* C4: whatever the operation (clearCell, clearNeighbors, markCell), a cell
\* exposed in the board it is applied to is exposed in the board it leaves,
\* with the same exploded and numMinesNearby: exposure is never undone.
C4_ExposedStaysExposed ==
    \A i \in DOMAIN prev.cells :
        isExposed(prev.cells[i].state) => game.cells[i].state = prev.cells[i].state

C4_Witness ==
    /\ last.op = "clearNeighbors"
    /\ \E i \in DOMAIN prev.cells : isExposed(prev.cells[i].state)
    /\ \E i \in DOMAIN prev.cells :
            ~isExposed(prev.cells[i].state) /\ isExposed(game.cells[i].state)
    /\ C4_ExposedStaysExposed

\* C5: clearCell on an exposed cell returns the same board and raises no
\* error; so a second clearCell of the same cell returns the board of the first.
C5_ClearExposedIsNoOp ==
    /\ (last.op = "clearCell" /\ isExposed(cellState(prev, last.row, last.column)))
        => (game = prev /\ ~last.threw)
    /\ last.op = "clearCell"
        => clearCell(variant, game, last.row, last.column) = {Returned(game)}

C5_Witness ==
    /\ last.op = "clearCell"
    /\ isExposed(cellState(prev, last.row, last.column))
    /\ game = prev
    /\ ~last.threw

\* the number of mines around cell i, and the neighbours of i flagged as mine
CountAt(g, i) == Cardinality(NeighborIndexes(g, i) \cap MineCells(g))
IsFlagged(c) == c.state.kind = "covered" /\ c.state.marker = "Mine"
FlaggedNeighbors(g, i) == {j \in NeighborIndexes(g, i) : IsFlagged(g.cells[j])}

\* the least set that holds S and every neighbour of its cells with no mine nearby
RECURSIVE ZeroClosure(_, _)
ZeroClosure(g, S) ==
    LET grown == S \cup UNION {NeighborIndexes(g, i) : i \in {j \in S : CountAt(g, j) = 0}}
    IN  IF grown = S THEN S ELSE ZeroClosure(g, grown)

FloodCase ==
    /\ variant = "flood"
    /\ last.op = "clearCell"
    /\ \A i \in DOMAIN prev.cells : ~IsFlagged(prev.cells[i])
    /\ ~isExposed(prev.cells[TargetIndex].state)
    /\ TargetIndex \notin MineCells(game)
    /\ CountAt(game, TargetIndex) = 0

C7_FlaggedNeverAutoRevealed ==
    last.op \in {"clearCell", "clearNeighbors"} =>
        \A i \in DOMAIN prev.cells :
            (IsFlagged(prev.cells[i]) /\ ~(last.op = "clearCell" /\ i = TargetIndex))
                => IsFlagged(game.cells[i])

\* C8: clearCell on a covered cell holding a mine, mines allocated, exposes
\* that one cell with exploded = true and starts no cascade: every other cell
\* is unchanged, whatever the number of mines near the target.
C8_ExplodingExposesOneCell ==
    (/\ last.op = "clearCell"
     /\ prev.minesAllocated
     /\ ~isExposed(prev.cells[TargetIndex].state)
     /\ prev.cells[TargetIndex].hasMine)
    => /\ ~last.threw
       /\ isExposed(game.cells[TargetIndex].state)
       /\ game.cells[TargetIndex].state.exploded
       /\ game.cells[TargetIndex].hasMine
       /\ \A i \in DOMAIN prev.cells \ {TargetIndex} : game.cells[i] = prev.cells[i]

C8_Witness ==
    /\ variant = "flood"
    /\ last.op = "clearCell"
    /\ prev.minesAllocated
    /\ ~isExposed(prev.cells[TargetIndex].state)
    /\ prev.cells[TargetIndex].hasMine
    /\ CountAt(prev, TargetIndex) = 0
    /\ game.cells[TargetIndex].state = ExposedCellState(TRUE, 0)
    /\ \E i \in NeighborIndexes(prev, TargetIndex) : ~isExposed(game.cells[i].state)

ChordCase ==
    /\ last.op = "clearNeighbors"
    /\ isExposed(prev.cells[TargetIndex].state)
    /\ ~prev.cells[TargetIndex].state.exploded
    /\ Cardinality(FlaggedNeighbors(prev, TargetIndex))
            = prev.cells[TargetIndex].state.numMinesNearby

\* C9: clearNeighbors on an exposed, non-exploded cell with numMinesNearby = k
\* and exactly k covered neighbours marked Marker.Mine exposes every neighbour
\* that was covered and not marked Marker.Mine.
C9_ChordExposesUnflaggedNeighbors ==
    ChordCase =>
        /\ ~last.threw
        /\ \A i \in NeighborIndexes(prev, TargetIndex) :
                (~isExposed(prev.cells[i].state) /\ ~IsFlagged(prev.cells[i]))
                    => isExposed(game.cells[i].state)

C9_Witness ==
    /\ ChordCase
    /\ prev.cells[TargetIndex].state.numMinesNearby >= 1
    /\ FlaggedNeighbors(game, TargetIndex) = FlaggedNeighbors(prev, TargetIndex)
    /\ \E i \in NeighborIndexes(prev, TargetIndex) :
            ~isExposed(prev.cells[i].state) /\ isExposed(game.cells[i].state)

\* C10: clearNeighbors returns the board unchanged when the cell is covered,
\* or exposed and exploded, or the number of its covered neighbours marked
\* Marker.Mine differs from its numMinesNearby.
C10_ChordUnchangedOtherwise ==
    (last.op = "clearNeighbors" /\ ~ChordCase) => (game = prev /\ ~last.threw)

C10_Witness ==
    /\ last.op = "clearNeighbors"
    /\ isExposed(prev.cells[TargetIndex].state)
    /\ ~prev.cells[TargetIndex].state.exploded
    /\ Cardinality(FlaggedNeighbors(prev, TargetIndex))
            # prev.cells[TargetIndex].state.numMinesNearby
    /\ \E i \in NeighborIndexes(prev, TargetIndex) :
            ~isExposed(prev.cells[i].state) /\ ~IsFlagged(prev.cells[i])
    /\ game = prev

\* C11: in every reachable board an exposed cell exists only if minesAllocated
\* is true; so a clearNeighbors that gets past its guards works on a board
\* whose mines are allocated, and none of its clearCell calls places mines:
\* it leaves every hasMine and minesAllocated as they were.
C11_ExposedImpliesAllocated ==
    /\ (\E i \in DOMAIN game.cells : isExposed(game.cells[i].state))
            => game.minesAllocated
    /\ (last.op = "clearNeighbors" /\ isExposed(prev.cells[TargetIndex].state))
            => /\ prev.minesAllocated
               /\ game.minesAllocated
               /\ MineCells(game) = MineCells(prev)

\* a chord on a board whose mines were placed lazily (fewer mines than the
\* count asked for can only come from a clamped draw) that exposes cells
C11_Witness ==
    /\ last.op = "clearNeighbors"
    /\ prev.minesAllocated
    /\ Cardinality(MineCells(prev)) < prev.numMines
    /\ \E i \in DOMAIN prev.cells :
            ~isExposed(prev.cells[i].state) /\ isExposed(game.cells[i].state)

\* C12: markCell on an exposed cell fails, whatever the marker (Mine, Maybe
\* or unset), and leaves the caller with the board it had; on a covered cell
\* it succeeds, whatever the marker, and the cell of the returned board is
\* covered with exactly that marker.
C12_MarkCellFailsOnExposedOnly ==
    last.op = "markCell" =>
        IF isExposed(prev.cells[TargetIndex].state)
        THEN last.threw /\ game = prev
        ELSE /\ ~last.threw
             /\ game.cells[TargetIndex].state = CoveredCellState(last.marker)

\* a call without marker on an exposed cell of a board that also holds a flag
C12_Witness ==
    /\ last.op = "markCell"
    /\ last.marker = Undefined
    /\ isExposed(prev.cells[TargetIndex].state)
    /\ \E i \in DOMAIN prev.cells : IsFlagged(prev.cells[i])
    /\ last.threw
    /\ game = prev

\* C13: markCell is idempotent on covered cells: after markCell(r, c, m) a
\* second markCell(r, c, m) returns an equal board, for every marker m; and
\* after markCell(r, c, m) on an unmarked covered cell, markCell(r, c) without
\* marker returns a board equal to the one before the first call.
C13_MarkCellIdempotent ==
    (last.op = "markCell" /\ ~last.threw) =>
        /\ markCell(game, last.row, last.column, last.marker) = Returned(game)
        /\ prev.cells[TargetIndex].state = CoveredCellState(Undefined)
                => markCell(game, last.row, last.column, Undefined) = Returned(prev)

C13_Witness ==
    /\ last.op = "markCell"
    /\ ~last.threw
    /\ last.marker = "Maybe"
    /\ prev.cells[TargetIndex].state = CoveredCellState(Undefined)
    /\ game # prev
    /\ markCell(game, last.row, last.column, Undefined) = Returned(prev)

\* C14: markCell changes nothing but the marker of its target: every other
\* cell, every hasMine, numRows, numColumns, numMines and minesAllocated are
\* unchanged; it allocates no mines even before the first reveal.
C14_MarkCellFrame ==
    last.op = "markCell" =>
        /\ \A i \in DOMAIN prev.cells \ {TargetIndex} : game.cells[i] = prev.cells[i]
        /\ DOMAIN game.cells = DOMAIN prev.cells
        /\ MineCells(game) = MineCells(prev)
        /\ game.numRows = prev.numRows
        /\ game.numColumns = prev.numColumns
        /\ game.numMines = prev.numMines
        /\ game.minesAllocated = prev.minesAllocated

\* a flag set before the first reveal on a board that asks for mines
C14_Witness ==
    /\ last.op = "markCell"
    /\ ~last.threw
    /\ ~prev.minesAllocated
    /\ prev.numMines > 0
    /\ IsFlagged(game.cells[TargetIndex])
    /\ ~game.minesAllocated
    /\ MineCells(game) = {}

OutOfBoundsCall ==
    /\ last.op \in {"cellState", "neighborCoords", "neighbors",
                    "clearCell", "clearNeighbors", "markCell"}
    /\ ~InBounds(prev, last.row, last.column)

\* C15: every query and mutation that takes a coordinate (cellState,
\* neighborCoords, neighbors, clearCell, clearNeighbors, markCell) fails when
\* the row or the column is outside the board: it hands back no value and
\* no new board.
C15_OutOfBoundsAlwaysFails ==
    OutOfBoundsCall => (last.threw /\ game = prev /\ answer = Undefined)

\* what holds of the code: the calls that go through cell() fail
ValidatedCallsFailOutOfBounds ==
    (OutOfBoundsCall /\ last.op \notin {"neighborCoords", "neighbors"})
        => (last.threw /\ game = prev /\ answer = Undefined)

SuppliedMines == {i \in 1..Len(last.cells) : last.cells[i].hasMine}

\* C16: the constructor given a cell sequence fails when its length differs
\* from numRows * numColumns; otherwise the board has numMines = the number
\* of supplied cells with hasMine and minesAllocated = true, cell by cell the
\* hasMine supplied; the first clearCell on it places no mines: it has one
\* outcome and leaves every hasMine, numMines and minesAllocated as they were.
C16_ExplicitCellsConstructor ==
    /\ last.op = "constructor" =>
            IF Len(last.cells) # last.numRows * last.numColumns
            THEN last.threw /\ game = NoGame
            ELSE /\ ~last.threw
                 /\ game.numRows = last.numRows
                 /\ game.numColumns = last.numColumns
                 /\ game.numMines = Cardinality(SuppliedMines)
                 /\ game.minesAllocated
                 /\ MineCells(game) = {i - 1 : i \in SuppliedMines}
                 /\ Cardinality(clearCell(variant, game, 0, 0)) = 1
    /\ (last.op = "clearCell" /\ prev # NoGame) =>
            /\ ~last.threw
            /\ MineCells(game) = MineCells(prev)
            /\ game.numMines = prev.numMines
            /\ game.minesAllocated

\* a first clearCell that exposes a covered cell of a board built from
\* supplied cells of which one, but not the target, has a mine
C16_Witness ==
    /\ last.op = "clearCell"
    /\ prev # NoGame
    /\ prev.numMines = 1
    /\ ~isExposed(prev.cells[TargetIndex].state)
    /\ isExposed(game.cells[TargetIndex].state)
    /\ ~game.cells[TargetIndex].state.exploded
    /\ MineCells(game) = MineCells(prev)

\* the constructor refusing a sequence one cell short
C16_WitnessThrown ==
    /\ last.op = "constructor"
    /\ Len(last.cells) + 1 = last.numRows * last.numColumns
    /\ last.threw

MarkedCells(g) ==
    {i \in DOMAIN g.cells :
        g.cells[i].state.kind = "covered" /\ g.cells[i].state.marker # Undefined}

ExposedCells(g) == {i \in DOMAIN g.cells : isExposed(g.cells[i].state)}

\* C18: on boards started from all-covered cells, every exposed cell of a
\* reachable board has exploded = hasMine and numMinesNearby = the number of
\* its in-bounds neighbours (the 8 around it) with hasMine = true.
C18_ExposedCellsTellTheTruth ==
    \A i \in ExposedCells(game) :
        /\ game.cells[i].state.exploded = game.cells[i].hasMine
        /\ game.cells[i].state.numMinesNearby = CountAt(game, i)

\* an exploded mine next to an exposed cell that counts it
C18_Witness ==
    \E i \in ExposedCells(game) :
        /\ game.cells[i].state.exploded
        /\ \E j \in NeighborIndexes(game, i) \cap ExposedCells(game) :
                game.cells[j].state = ExposedCellState(FALSE, 1)

FlaggedCells(g) == {i \in DOMAIN g.cells : IsFlagged(g.cells[i])}
ExplodedCells(g) == {i \in ExposedCells(g) : g.cells[i].state.exploded}

\* C19: gameInfo of any reachable board returns numMines = the mine count of
\* the board, which no operation changes, numExploded = the number of exposed
\* cells with exploded = true, and numMarkedMines = the number of covered
\* cells marked Marker.Mine plus numExploded; cells marked Maybe and exposed
\* cells that did not explode count toward neither.
C19_GameInfoCounts ==
    /\ gameInfo(game) = [numMines |-> game.numMines,
                         numExploded |-> Cardinality(ExplodedCells(game)),
                         numMarkedMines |-> Cardinality(FlaggedCells(game))
                                            + Cardinality(ExplodedCells(game))]
    /\ gameInfo(game).numMines = gameInfo(prev).numMines

\* a board with an exploded cell, a flagged cell and a cell marked Maybe
C19_Witness ==
    /\ Cardinality(ExplodedCells(game)) = 1
    /\ Cardinality(FlaggedCells(game)) = 1
    /\ Cardinality(MarkedCells(game)) = 2
    /\ gameInfo(game).numMarkedMines = 2
    /\ gameInfo(game).numExploded = 1

\* the status the rules of the game give a board
StatusOf(g) ==
    IF Cardinality(ExplodedCells(g)) > 0 THEN "Lose"
    ELSE IF /\ MineCells(g) \subseteq FlaggedCells(g)
            /\ (DOMAIN g.cells \ MineCells(g)) \subseteq ExposedCells(g)
         THEN "Win"
         ELSE "InProgress"

\* C20: gameInfo of every reachable board reports a status: Lose iff
\* numExploded > 0, Win iff every mine cell is flagged and every cell without
\* mine is exposed, InProgress otherwise.
C20_GameInfoReportsStatus ==
    /\ "status" \in DOMAIN gameInfo(game)
    /\ gameInfo(game).status = StatusOf(game)

Built == last.op \in {"constructor", "constructorCount"} /\ ~last.threw

\* C21 as claimed: every board the constructors produce, from a mine count or
\* from explicit cells, has 0 <= numMines <= numRows * numColumns - 9.
C21_NumMinesLeavesSafeZone ==
    Built => (0 <= game.numMines /\ game.numMines <= NumCells(game) - 9)

\* C21 as amended: neither constructor checks numMines against the size of
\* the board. The mine-count constructor never fails and stores the count it
\* is handed as it is (0 when there is none); the explicit-cells constructor
\* stores the number of supplied cells with hasMine, so there
\* 0 <= numMines <= numRows * numColumns.
C21_NumMinesAsHandedIn ==
    /\ last.op = "constructorCount" =>
            /\ ~last.threw
            /\ game.numMines = (IF Len(last.rest) = 0 THEN 0 ELSE last.rest[1])
            /\ NumCells(game) = last.numRows * last.numColumns
    /\ (last.op = "constructor" /\ ~last.threw) =>
            /\ game.numMines = Cardinality(SuppliedMines)
            /\ 0 <= game.numMines
            /\ game.numMines <= NumCells(game)

\* a board built with more mines asked for than it has cells
C21_Witness ==
    /\ last.op = "constructorCount"
    /\ ~last.threw
    /\ game.numMines > NumCells(game)
    /\ ~game.minesAllocated


\* C22: during one flood fill of the "flood" engine's clearCell, no cell is
\* taken from the work list (and exposed) more than once.
C22_FloodTakesEachCellOnce ==
    loop.kind = "clearCell" => loop.again = {}
\* C23: a clearCell of the "flood" engine that has entered its flood loop, and
\* a clearNeighbors of the "game" engine that has entered its work-list loop,
\* reach the point where the work list is empty and the call has returned.
C23_LoopsTerminate ==
    (loop.kind # "none") ~> (loop.kind = "none")

C23_Witness ==
    /\ loop = NoLoop
    /\ last.op = "clearNeighbors"
    /\ MarkedCells(prev) # {}
    /\ Cardinality(ExposedCells(game) \ ExposedCells(prev)) >= 3
\* C24: the App-level helper clearNeighbors(game, row, column) hands back its
\* input board unchanged unless the cell is exposed, is not an exploded mine
\* and has as many neighbours marked Marker.Mine as its numMinesNearby; when
\* all three hold, every neighbour that was covered and not marked
\* Marker.Mine has been cleared.
C24_HelperClearsOnlyWhenAllowed ==
    (last.op = "helperClearNeighbors" /\ ~last.threw)
    => LET st == cellState(prev, last.row, last.column)
       IN  IF /\ isExposed(st)
              /\ ~st.exploded
              /\ numMarkedNeighbors(prev, last.row, last.column) = st.numMinesNearby
           THEN \A rc \in SeqRange(neighborsToClear(prev, last.row, last.column)) :
                    isExposed(cellState(game, rc[1], rc[2]))
           ELSE game = prev
\* C25: after clearNeighbors of the "game" engine returns, every cell the call
\* exposed that is not exploded and has no mine nearby has each of its
\* in-bounds neighbours exposed or marked Marker.Mine.
C25_CascadeIsComplete ==
    (last.op = "clearNeighbors" /\ ~last.threw)
    => \A i \in ExposedCells(game) \ ExposedCells(prev) :
            cascades(game.cells[i].state)
            => \A j \in NeighborIndexes(game, i) :
                    \/ isExposed(game.cells[j].state)
                    \/ game.cells[j].state.marker = "Mine"
\* the board g with the mines of board h on it, marked as allocated
withMinesOf(g, h) ==
    [g EXCEPT !.minesAllocated = TRUE,
              !.cells = [i \in DOMAIN g.cells |->
                            [g.cells[i] EXCEPT !.hasMine = h.cells[i].hasMine]]]

\* C26: in clearNeighbors of the "game" engine, a pass that cascades pushes
\* a covered neighbour exactly when it is not in cellsToClear yet: after the
\* pass the work list is what the pop left, followed by the covered
\* neighbours that were absent from it, and it holds no coordinate twice.
C26_PushedExactlyWhenAbsent ==
    (loop.kind = "clearNeighbors" /\ loop.at # << >>)
    => /\ \A i, j \in 1..Len(loop.cellsToClear) :
                loop.cellsToClear[i] = loop.cellsToClear[j] => i = j
       /\ LET absent(rc) == /\ cellState(loop.game, rc[1], rc[2]).kind = "covered"
                            /\ rc \notin SeqRange(loop.rest)
              pushed == IF cascades(cellState(loop.game, loop.at[1], loop.at[2]))
                        THEN SelectSeq(neighborCoords(loop.game, loop.at[1], loop.at[2]), absent)
                        ELSE << >>
          IN  loop.cellsToClear = loop.rest \o pushed

\* C27: with no cell marked, the App's Clear click on a covered cell over the
\* "game" engine (clearCell, then clearNeighbors when the cell came out with
\* no mine nearby) leaves the cells as clearCell of the "flood" engine
\* leaves them on the same mine layout.
C27_ClearClickIsFloodFill ==
    (/\ last.op = "handleCellClick"
     /\ variant = "game"
     /\ ~isExposed(cellState(prev, last.row, last.column)))
    => game.cells = clearAllocated("flood", withMinesOf(prev, game),
                                   last.row, last.column).cells
\* C28: whichever pending cell each pass takes from the work list, the call
\* returns the cells the code's own order (last in, first out) produces: for
\* the flood fill of clearCell ("flood" engine) and for the cascade of
\* clearNeighbors ("game" engine).
C28_FloodOrderIndependent ==
    (last.op = "clearCell" /\ variant = "flood"
        /\ ~isExposed(cellState(prev, last.row, last.column)))
    => game.cells = clearAllocated("flood", withMinesOf(prev, game),
                                   last.row, last.column).cells

C28_CascadeOrderIndependent ==
    (last.op = "clearNeighbors")
    => game \in {r.game : r \in clearNeighbors(prev, last.row, last.column)}

C28_OrderIndependent ==
    C28_FloodOrderIndependent /\ C28_CascadeOrderIndependent
\* C29: clearCell, clearNeighbors and markCell hand back a board with the
\* numRows, numColumns and numMines of the board they were called on; once
\* minesAllocated is true on a board it is true on the board handed back,
\* and every cell has the hasMine it had.
C29_MinesAndShapeAreFixed ==
    (last.op \in {"clearCell", "clearNeighbors", "markCell"})
    => /\ game.numRows = prev.numRows
       /\ game.numColumns = prev.numColumns
       /\ game.numMines = prev.numMines
       /\ DOMAIN game.cells = DOMAIN prev.cells
       /\ prev.minesAllocated
            => /\ game.minesAllocated
               /\ \A i \in DOMAIN prev.cells :
                        game.cells[i].hasMine = prev.cells[i].hasMine

C29_Witness ==
    /\ last.op = "clearCell"
    /\ prev.minesAllocated
    /\ MineCells(prev) # {}
    /\ ExposedCells(prev) # {}
    /\ ExposedCells(game) # ExposedCells(prev)
\* C30: in the App, while the current game has gameInfo.numExploded > 0, a
\* click on a cell, whatever the command and the cell, leaves game and
\* history as they are; only undo and new game change them.
C30_GameOverAbsorbsClicks ==
    [][(gameInfo(game).numExploded > 0 /\ last'.op \notin {"undoMove", "newGame"})
            => (game' = game /\ history' = history)]_vars

C30_Witness ==
    /\ last.op = "handleCellClick"
    /\ gameInfo(prev).numExploded > 0
    /\ game = prev
    /\ Len(history) >= 2
\* the board g with the marker taken off the cell at (row, column)
unmarked(g, row, column) ==
    [g EXCEPT !.cells[getIndex(g, row, column)].state = CoveredCellState(Undefined)]

\* C36: clearCell on a covered cell marked Mine or Maybe exposes it as it
\* exposes an unmarked cell: exploded = hasMine, numMinesNearby = the number
\* of neighbours with a mine, no marker in the exposed state, and the board
\* handed back is one clearCell hands back for the same board without the
\* marker.
C36_ClearCellIgnoresTargetMarker ==
    (/\ last.op = "clearCell"
     /\ ~last.threw
     /\ ~isExposed(prev.cells[TargetIndex].state)
     /\ prev.cells[TargetIndex].state.marker # Undefined)
    => /\ game.cells[TargetIndex].state =
            ExposedCellState(game.cells[TargetIndex].hasMine, CountAt(game, TargetIndex))
       /\ game \in {r.game : r \in clearCell(variant, unmarked(prev, last.row, last.column),
                                               last.row, last.column)}

C36_Witness ==
    /\ last.op = "clearCell"
    /\ ~isExposed(prev.cells[TargetIndex].state)
    /\ prev.cells[TargetIndex].state.marker = "Mine"
    /\ isExposed(game.cells[TargetIndex].state)
    /\ game.cells[TargetIndex].state.exploded
\* C37: clearCell of the "game" engine changes the state of its target cell
\* only: every other cell keeps its state and its marker, also through the
\* placing of the mines by the first reveal; the shape and the mine count
\* stay, and on a board whose mines are placed every hasMine stays.
C37_GameClearCellFrame ==
    (variant = "game" /\ last.op = "clearCell")
    => /\ \A i \in DOMAIN prev.cells :
                i # TargetIndex => game.cells[i].state = prev.cells[i].state
       /\ DOMAIN game.cells = DOMAIN prev.cells
       /\ game.numRows = prev.numRows
       /\ game.numColumns = prev.numColumns
       /\ game.numMines = prev.numMines
       /\ prev.minesAllocated => /\ game.minesAllocated
                                 /\ MineCells(game) = MineCells(prev)
       /\ game.cells[TargetIndex].state # prev.cells[TargetIndex].state
            => (~isExposed(prev.cells[TargetIndex].state)
                    /\ isExposed(game.cells[TargetIndex].state))

C37_Witness ==
    /\ variant = "game"
    /\ last.op = "clearCell"
    /\ ~prev.minesAllocated
    /\ game.minesAllocated
    /\ MineCells(game) # {}
    /\ \E i \in MarkedCells(prev) : i # TargetIndex /\ i \in MarkedCells(game)
\* C31: a click handled on a live game appends the board before the click to
\* the history, also when the engine call changed nothing, and undoMove on
\* the state the click left gives back that board and the history before
\* the click; no step changes a board that stays in the history.
C31_UndoIsInverseOfClick ==
    [][/\ (last'.op = "handleCellClick" /\ gameInfo(game).numExploded = 0)
            => /\ history' = Append(history, game)
               /\ undoUpdater(AppState(game', history')) = AppState(game, history)
       /\ last'.op = "undoMove"
            => IF Len(history) > 0
               THEN /\ game' = history[Len(history)]
                    /\ Append(history', game') = history
               ELSE game' = game /\ history' = history
       /\ \A i \in 1..Min(Len(history), Len(history')) : history'[i] = history[i]]_vars

C31_Witness ==
    /\ last.op = "undoMove"
    /\ Len(history) >= 1
    /\ game # history[Len(history)]
    /\ MarkedCells(game) # {}
    /\ ~game.minesAllocated
    /\ prev.minesAllocated
\* C32: in the App no click on a cell of the board makes an engine call
\* fail, whatever clicks, undos and new games came before: a mark click on
\* an exposed cell calls nothing and leaves the board, and a plain click on
\* an exposed cell is a clearNeighbors of the "game" engine.
C32_NoEngineCallFails ==
    (last.op = "handleCellClick")
    => /\ ~last.threw
       /\ InBounds(prev, last.row, last.column)
       /\ (gameInfo(prev).numExploded = 0 /\ isExposed(cellState(prev, last.row, last.column)))
            => /\ last.command \in {"MarkMine", "MarkMaybe"} => game = prev
               /\ (last.command = "Clear" /\ variant = "game")
                    => Returned(game) \in clearNeighbors(prev, last.row, last.column)

C32_Witness ==
    /\ last.op = "handleCellClick"
    /\ variant = "game"
    /\ last.command = "MarkMine"
    /\ gameInfo(prev).numExploded = 0
    /\ isExposed(cellState(prev, last.row, last.column))
    /\ Len(history) >= 2
\* the marker a mark command asks for
MarkerOf(command) == IF command = "MarkMine" THEN "Mine" ELSE "Maybe"

\* the last step was a mark click on a covered cell of a live game
MarkClickCase ==
    /\ last.op = "handleCellClick"
    /\ last.command \in {"MarkMine", "MarkMaybe"}
    /\ gameInfo(prev).numExploded = 0
    /\ ~isExposed(cellState(prev, last.row, last.column))

\* the boards the same click, made once more, leaves
ClickedAgain == {r.game : r \in clicked(variant, game, last.row, last.column, last.command)}

\* C33 as claimed: a mark click with marker m on a covered cell takes m off
\* when the cell carries it and sets m otherwise, and two identical mark
\* clicks in a row give back the cell states before the first.
C33_TwoMarkClicksRestore ==
    MarkClickCase
    => /\ cellState(game, last.row, last.column) =
            CoveredCellState(IF cellState(prev, last.row, last.column).marker = MarkerOf(last.command)
                             THEN Undefined ELSE MarkerOf(last.command))
       /\ \A g \in ClickedAgain : g.cells = prev.cells

\* C33: a mark click with marker m on a covered cell takes m off when the
\* cell carries it and sets m otherwise, leaving every other cell; the same
\* click made once more gives back the cell states before the first when
\* the cell carried m or no marker, and leaves the cell unmarked when it
\* carried the other marker.
C33_MarkClickToggles ==
    MarkClickCase
    => LET before == cellState(prev, last.row, last.column).marker
           m == MarkerOf(last.command)
       IN  /\ cellState(game, last.row, last.column) =
                    CoveredCellState(IF before = m THEN Undefined ELSE m)
           /\ \A i \in DOMAIN prev.cells : i # TargetIndex => game.cells[i] = prev.cells[i]
           /\ ClickedAgain # {}
           /\ \A g \in ClickedAgain :
                    IF before \in {m, Undefined}
                    THEN g.cells = prev.cells
                    ELSE g = unmarked(prev, last.row, last.column)

C33_Witness ==
    /\ MarkClickCase
    /\ cellState(prev, last.row, last.column).marker = "Maybe"
    /\ last.command = "MarkMine"
    /\ unmarked(prev, last.row, last.column) \in ClickedAgain
\* the states the clicks of a queue lead to when each is handled on the
\* state the click before it left, from entry i on
RECURSIVE OneAfterAnother(_, _, _)
OneAfterAnother(st, queue, i) ==
    IF i > Len(queue) THEN {st}
    ELSE UNION {OneAfterAnother(st2, queue, i + 1) :
                    st2 \in clickUpdater(variant, st, queue[i].u)}

\* React has just applied a queue that held clicks only
ClicksApplied ==
    /\ last.op = "flush"
    /\ \A i \in 1..Len(last.updates) : last.updates[i].u.op = "handleCellClick"

\* C34: when React applies several clicks that were queued before any of
\* them was applied, the game and the history it ends with are those of the
\* clicks handled one after another, each on the state the one before left.
C34_NoClickIsLost ==
    ClicksApplied
    => AppState(game, history)
            \in OneAfterAnother(AppState(prev, last.history), last.updates, 1)

C34_Witness ==
    /\ ClicksApplied
    /\ Len(last.updates) >= 2
    /\ Len(history) = Len(last.history) + Len(last.updates)
    /\ history[Len(history)] # prev
    /\ game # history[Len(history)]

\* C35: the App's game is a board in every state, and so is every entry of
\* its history, also after two undo requests queued while the history held
\* one entry; undoMove on an empty history changes nothing.
C35_GameIsAlwaysABoard ==
    /\ game # NoGame
    /\ \A i \in 1..Len(history) : history[i] # NoGame
    /\ (last.op = "undoMove" /\ Len(history) = 0) => pending = << >> \/ pending[Len(pending)].u.op # "undoMove"
====
